---- MODULE Spec2Model ----
(***************************************************************************)
(* Model of src/assets/transactions.py: the Dagster asset                  *)
(* ethereum_transactions_recent, which reads the chain head once, fetches  *)
(* the last N blocks with full transactions, flattens every transaction    *)
(* into a row and writes the rows to one Parquet file keyed by the head.   *)
(*                                                                         *)
(* The environment is an Ethereum JSON-RPC node (a chain whose head may    *)
(* advance at any time and whose calls may fail), the process environment  *)
(* (ETHEREUM_RPC_URL, ETH_TX_RECENT_BLOCKS) and a file system.             *)
(***************************************************************************)
EXTENDS Integers, Sequences, FiniteSets, TLC

\* ------------------------------------------------------------------ bounds
\* Highest block number the chain can reach (blocks 0..MaxHead exist in the
\* model, the head is anywhere in that range and may advance up to it).
MaxHead == 2
\* Number of materializations (invocations of the asset) in one behaviour.
MaxRuns == 2
\* Largest block count written explicitly in ETH_TX_RECENT_BLOCKS.
MaxEnvBlocks == 2

\* --------------------------------------------------------------- constants
\* Python's None, for the columns that are nullable (to, max_fee_per_gas,
\* max_priority_fee_per_gas): every real value of those columns is >= 0.
None == -1

VARIABLES
    environ,       \* os.environ as the current invocation finds it
    head,          \* the node: current chain head (eth_blockNumber)
    chain,         \* the node: block number -> which body the block has
    files,         \* file system: output path -> rows stored in the file
    dirExists,     \* file system: data/ethereum/transactions exists
    runs,          \* number of invocations started so far
    pc,            \* position of the current invocation
    error,         \* the exception that ended the invocation, if any
    n_blocks,      \* local n_blocks
    latest_block,  \* local latest_block
    start_block,   \* local start_block
    blocks,        \* the sequence range(start_block, latest_block + 1)
    it,            \* number of items of that range already consumed
    rows,          \* local rows
    result,        \* the MaterializeResult metadata returned
    trace,         \* this invocation's RPC calls and file-system calls, in order
    fetched,       \* the blocks the provider returned to this invocation, in order
    filesAtStart,  \* the file system as the invocation found it
    dirAtStart,
    writes         \* every to_parquet call of every invocation, in order

vars == <<environ, head, chain, files, dirExists, runs, pc, error, n_blocks,
          latest_block, start_block, blocks, it, rows, result, trace, fetched,
          filesAtStart, dirAtStart, writes>>

locals == <<n_blocks, latest_block, start_block, blocks, it, rows>>

Max(a, b) == IF a >= b THEN a ELSE b
Min(a, b) == IF a <= b THEN a ELSE b

\* ------------------------------------------------------- the process environment
\* An environment string is a sequence of characters.
DigitValue(c) ==
    CASE c = "0" -> 0 [] c = "1" -> 1 [] c = "2" -> 2 [] c = "3" -> 3 [] c = "4" -> 4
      [] c = "5" -> 5 [] c = "6" -> 6 [] c = "7" -> 7 [] c = "8" -> 8 [] c = "9" -> 9
      [] OTHER -> None

DigitChar(d) == <<"0", "1", "2", "3", "4", "5", "6", "7", "8", "9">>[d + 1]

IsDigits(s) == Len(s) >= 1 /\ \A i \in 1..Len(s) : DigitValue(s[i]) # None

\* int(s) accepts an optional sign followed by decimal digits; anything else
\* raises ValueError.
IsIntLiteral(s) ==
    /\ Len(s) >= 1
    /\ IF s[1] = "-" \/ s[1] = "+" THEN IsDigits(Tail(s)) ELSE IsDigits(s)

RECURSIVE DigitsValue(_)
DigitsValue(s) ==
    IF s = <<>> THEN 0
    ELSE 10 * DigitsValue(SubSeq(s, 1, Len(s) - 1)) + DigitValue(s[Len(s)])

ParseInt(s) ==
    IF s[1] = "-" THEN 0 - DigitsValue(Tail(s))
    ELSE IF s[1] = "+" THEN DigitsValue(Tail(s))
    ELSE DigitsValue(s)

\* The default of os.getenv("ETH_TX_RECENT_BLOCKS", "10").
DefaultBlocks == <<"1", "0">>

\* A variable of the environment is the sequence of its values: empty when
\* the variable is unset, one string when it is set.
\* os.getenv(name, default)
Getenv(name, default) == IF environ[name] = <<>> THEN default ELSE environ[name][1]

\* name in os.environ
EnvHas(name) == environ[name] # <<>>

\* The values ETHEREUM_RPC_URL takes in the model: unset, or an endpoint.
EnvUrlSettings == {<<>>, << <<"h", "t", "t", "p">> >>}

\* The values ETH_TX_RECENT_BLOCKS takes in the model: unset, "-1", "0",
\* "1" .. str(MaxEnvBlocks), and a string that is no integer.
EnvBlocksSettings ==
    {<<>>, << <<"-", "1">> >>, << <<"x">> >>}
        \cup { << <<DigitChar(n)>> >> : n \in 0..MaxEnvBlocks }

\* ------------------------------------------------------------------- the chain
\* The bodies a block can have: each is the list of transactions as the node
\* returns it for eth_getBlockByNumber(fullTransactions=true), that is in
\* transactionIndex order.  Legacy transactions carry no maxFeePerGas and no
\* maxPriorityFeePerGas; a contract creation has to = None.
BodyPool == <<
    <<>>,
    << [from |-> 1, to |-> 2, value |-> 5, gas |-> 21, nonce |-> 0,
        transactionIndex |-> 0],
       [from |-> 2, to |-> 1, value |-> 0, gas |-> 50, nonce |-> 3,
        transactionIndex |-> 1, maxFeePerGas |-> 7, maxPriorityFeePerGas |-> 2] >>,
    << [from |-> 3, to |-> None, value |-> 0, gas |-> 90, nonce |-> 1,
        transactionIndex |-> 0, maxFeePerGas |-> 4, maxPriorityFeePerGas |-> 0] >>
>>

\* The block of number b as the node returns it; a block every 12 seconds.
ChainBlock(b) ==
    [number |-> b,
     timestamp |-> 12 * b,
     transactions |->
        [i \in 1..Len(BodyPool[chain[b]]) |->
            [hash |-> 16 * b + i] @@ BodyPool[chain[b]][i]]]

\* ------------------------------------------------------------ pure conversions
\* datetime.fromtimestamp(ts, tz=timezone.utc).isoformat():
\* days since the epoch, hour, minute, second and the UTC offset.
IsoFormat(ts) ==
    <<ts \div 86400, (ts % 86400) \div 3600, (ts % 3600) \div 60, ts % 60, "+00:00">>

\* HexBytes.hex(): the two low hexadecimal digits of the modelled hash.
Hex(h) == <<(h \div 16) % 16, h % 16>>

\* Variant: getattr(tx, name, 0).
GetAttrZeroDefault(tx, name) == IF name \in DOMAIN tx THEN tx[name] ELSE 0

\* getattr(tx, name, None)
GetAttr(tx, name) == IF name \in DOMAIN tx THEN tx[name] ELSE None

\* Variants: the window one block too long, and a block count forced to be
\* at least one.
StartBlockOffByOne(latest, n) == Max(0, latest - n)
StartBlockAtLeastOne(latest, n) == Max(0, latest - Max(1, n) + 1)

\* start_block = max(0, latest_block - n_blocks + 1)
StartBlock(latest, n) == Max(0, latest - n + 1)

\* range(start, stop) as a sequence.
Range(start, stop) == [i \in 1..Max(0, stop - start) |-> start + i - 1]

\* The blocks the loop visits: range(start_block, latest_block + 1).
BlockRange(start, latest) == Range(start, latest + 1)

\* The dict appended to rows for one transaction.
TxRecord(block_num, ts_iso, tx) ==
    [block_number |-> block_num,
     block_timestamp |-> ts_iso,
     hash |-> Hex(tx.hash),
     from |-> tx.from,
     to |-> tx.to,
     value_wei |-> tx.value,
     gas |-> tx.gas,
     max_fee_per_gas |-> GetAttr(tx, "maxFeePerGas"),
     max_priority_fee_per_gas |-> GetAttr(tx, "maxPriorityFeePerGas"),
     nonce |-> tx.nonce,
     transaction_index |-> tx.transactionIndex]

\* Variants: the first transaction of each block skipped, and the
\* transactions of a block taken last to first.
BlockRowsSkipFirst(block_num, block) ==
    [i \in 1..(Len(block.transactions) - 1) |->
        TxRecord(block_num, IsoFormat(block.timestamp), block.transactions[i + 1])]

BlockRowsReversed(block_num, block) ==
    [i \in 1..Len(block.transactions) |->
        TxRecord(block_num, IsoFormat(block.timestamp),
                 block.transactions[Len(block.transactions) + 1 - i])]

\* The rows one iteration of the outer loop appends: one per transaction of
\* the block, in the order of block.transactions.
BlockRows(block_num, block) ==
    [i \in 1..Len(block.transactions) |->
        TxRecord(block_num, IsoFormat(block.timestamp), block.transactions[i])]

\* out_path
OutPath(latest) == <<"data/ethereum/transactions/tx_recent_until_", latest, ".parquet">>

\* Variant: rows appended to a file that exists.
WriteFileAppend(fs, path, df) ==
    [p \in DOMAIN fs \cup {path} |->
        IF p # path THEN fs[p] ELSE IF p \in DOMAIN fs THEN fs[p] \o df ELSE df]

\* df.to_parquet(out_path, index=False): the file at the path is replaced.
WriteFile(fs, path, df) ==
    [p \in DOMAIN fs \cup {path} |-> IF p = path THEN df ELSE fs[p]]

\* df.head(10)
HeadRows(df) == SubSeq(df, 1, Min(10, Len(df)))

\* Variant: blocks_scanned taken from the frame.
MetadataFrameAsBlocks(n, latest, df, path) ==
    [blocks_scanned |-> Len(df),
     latest_block |-> latest,
     num_transactions |-> Len(df),
     preview |-> IF df = <<>> THEN <<"(no rows)">> ELSE HeadRows(df),
     file |-> path]

\* The metadata of the MaterializeResult.
Metadata(n, latest, df, path) ==
    [blocks_scanned |-> n,
     latest_block |-> latest,
     num_transactions |-> Len(df),
     preview |-> IF df = <<>> THEN <<"(no rows)">> ELSE HeadRows(df),
     file |-> path]

NoResult == [blocks_scanned |-> 0, latest_block |-> 0, num_transactions |-> 0,
             preview |-> <<>>, file |-> <<>>]

\* ------------------------------------------------------------------ trace items
\* arg: the block number asked for, or the number a file is keyed by;
\* ret: the block number the node answered with (None when the call failed);
\* at: the node's head when it answered (None for a file-system call).
RpcHead(ok, ret) ==
    [op |-> "eth_blockNumber", arg |-> None, ok |-> ok, ret |-> ret, at |-> head]
RpcBlock(b, ok) ==
    [op |-> "eth_getBlockByNumber", arg |-> b, ok |-> ok,
     ret |-> IF ok THEN b ELSE None, at |-> head]
FsMakedirs == [op |-> "makedirs", arg |-> None, ok |-> TRUE, ret |-> None, at |-> None]
FsWrite(latest) ==
    [op |-> "to_parquet", arg |-> latest, ok |-> TRUE, ret |-> None, at |-> None]

IsRpc(e) == e.op \in {"eth_blockNumber", "eth_getBlockByNumber"}
IsFs(e) == e.op \in {"makedirs", "to_parquet"}

\* ------------------------------------------------------------------------ Init
Init ==
    /\ environ = [ETHEREUM_RPC_URL |-> <<>>, ETH_TX_RECENT_BLOCKS |-> <<>>]
    /\ head \in 0..MaxHead
    /\ chain \in [0..MaxHead -> 1..Len(BodyPool)]
    /\ files = <<>>
    /\ dirExists = FALSE
    /\ runs = 0
    /\ pc = "idle"
    /\ error = "none"
    /\ n_blocks = 0
    /\ latest_block = 0
    /\ start_block = 0
    /\ blocks = <<>>
    /\ it = 0
    /\ rows = <<>>
    /\ result = NoResult
    /\ trace = <<>>
    /\ fetched = <<>>
    /\ filesAtStart = <<>>
    /\ dirAtStart = FALSE
    /\ writes = <<>>

\* --------------------------------------------------------------------- actions
\* The node appends a block.
AdvanceHead ==
    /\ head < MaxHead
    /\ head' = head + 1
    /\ UNCHANGED <<environ, chain, files, dirExists, runs, pc, error, locals, result,
                   trace, fetched, filesAtStart, dirAtStart, writes>>

\* Variant: the endpoint read with os.getenv, so that a missing variable
\* raises nothing and the client falls back to its default endpoint.
InvokeLenient(url, recent) ==
    /\ pc \in {"idle", "done", "failed"}
    /\ runs < MaxRuns
    /\ runs' = runs + 1
    /\ environ' = [ETHEREUM_RPC_URL |-> url, ETH_TX_RECENT_BLOCKS |-> recent]
    /\ n_blocks' = 0 /\ latest_block' = 0 /\ start_block' = 0
    /\ blocks' = <<>> /\ it' = 0 /\ rows' = <<>>
    /\ result' = NoResult
    /\ trace' = <<>>
    /\ fetched' = <<>>
    /\ filesAtStart' = files
    /\ dirAtStart' = dirExists
    /\ pc' = "config" /\ error' = "none"
    /\ UNCHANGED <<head, chain, files, dirExists, writes>>

\* A materialization starts in a process with the given environment:
\* w3 = _get_w3().  os.environ["ETHEREUM_RPC_URL"] raises KeyError when the
\* variable is missing; building the Web3 object issues no request.
Invoke(url, recent) ==
    /\ pc \in {"idle", "done", "failed"}
    /\ runs < MaxRuns
    /\ runs' = runs + 1
    /\ environ' = [ETHEREUM_RPC_URL |-> url, ETH_TX_RECENT_BLOCKS |-> recent]
    /\ n_blocks' = 0 /\ latest_block' = 0 /\ start_block' = 0
    /\ blocks' = <<>> /\ it' = 0 /\ rows' = <<>>
    /\ result' = NoResult
    /\ trace' = <<>>
    /\ fetched' = <<>>
    /\ filesAtStart' = files
    /\ dirAtStart' = dirExists
    /\ IF url # <<>>
       THEN pc' = "config" /\ error' = "none"
       ELSE pc' = "failed" /\ error' = "KeyError"
    /\ UNCHANGED <<head, chain, files, dirExists, writes>>

\* n_blocks = int(os.getenv("ETH_TX_RECENT_BLOCKS", "10")) with a value that is
\* no integer literal: ValueError.
ReadBlocksFails ==
    /\ pc = "config"
    /\ ~IsIntLiteral(Getenv("ETH_TX_RECENT_BLOCKS", DefaultBlocks))
    /\ pc' = "failed"
    /\ error' = "ValueError"
    /\ UNCHANGED <<environ, head, chain, files, dirExists, runs, locals, result, trace,
                   fetched, filesAtStart, dirAtStart, writes>>

\* n_blocks = int(os.getenv(...)); latest_block = w3.eth.block_number;
\* start_block = max(0, latest_block - n_blocks + 1); the loop's range is
\* built from these.
QueryHead ==
    /\ pc = "config"
    /\ IsIntLiteral(Getenv("ETH_TX_RECENT_BLOCKS", DefaultBlocks))
    /\ n_blocks' = ParseInt(Getenv("ETH_TX_RECENT_BLOCKS", DefaultBlocks))
    /\ latest_block' = head
    /\ start_block' = StartBlock(latest_block', n_blocks')
    /\ blocks' = BlockRange(start_block', latest_block')
    /\ it' = 0
    /\ trace' = Append(trace, RpcHead(TRUE, head))
    /\ pc' = "loop"
    /\ UNCHANGED <<environ, head, chain, files, dirExists, runs, error, rows, result,
                   fetched, filesAtStart, dirAtStart, writes>>

\* The same, the eth_blockNumber request failing: the exception propagates.
QueryHeadFails ==
    /\ pc = "config"
    /\ IsIntLiteral(Getenv("ETH_TX_RECENT_BLOCKS", DefaultBlocks))
    /\ n_blocks' = ParseInt(Getenv("ETH_TX_RECENT_BLOCKS", DefaultBlocks))
    /\ trace' = Append(trace, RpcHead(FALSE, None))
    /\ pc' = "failed"
    /\ error' = "ProviderError"
    /\ UNCHANGED <<environ, head, chain, files, dirExists, runs, latest_block,
                   start_block, blocks, it, rows, result, fetched, filesAtStart,
                   dirAtStart, writes>>

\* One iteration of the outer loop: get_block(block_num, full_transactions=True)
\* succeeds and every transaction of the block is appended to rows.
FetchBlock ==
    /\ pc = "loop"
    /\ it < Len(blocks)
    /\ LET block_num == blocks[it + 1]
           block == ChainBlock(block_num)
       IN /\ block_num \in 0..head
          /\ it' = it + 1
          /\ trace' = Append(trace, RpcBlock(block_num, TRUE))
          /\ fetched' = Append(fetched, block)
          /\ rows' = rows \o BlockRows(block_num, block)
    /\ UNCHANGED <<environ, head, chain, files, dirExists, runs, pc, error, n_blocks,
                   latest_block, start_block, blocks, result, filesAtStart, dirAtStart,
                   writes>>

\* Variant: the rows gathered so far are written when a get_block fails.
FetchBlockFailsFlushing ==
    /\ pc = "loop"
    /\ it < Len(blocks)
    /\ it' = it + 1
    /\ trace' = Append(trace, RpcBlock(blocks[it + 1], FALSE))
    /\ pc' = "failed"
    /\ error' = "ProviderError"
    /\ dirExists' = TRUE
    /\ files' = WriteFile(files, OutPath(latest_block), rows)
    /\ UNCHANGED <<environ, head, chain, runs, n_blocks, latest_block, start_block,
                   blocks, rows, result, fetched, filesAtStart, dirAtStart, writes>>

\* One iteration whose get_block request fails (network error, timeout, or a
\* block number the node does not know): the exception propagates.
FetchBlockFails ==
    /\ pc = "loop"
    /\ it < Len(blocks)
    /\ it' = it + 1
    /\ trace' = Append(trace, RpcBlock(blocks[it + 1], FALSE))
    /\ pc' = "failed"
    /\ error' = "ProviderError"
    /\ UNCHANGED <<environ, head, chain, files, dirExists, runs, n_blocks,
                   latest_block, start_block, blocks, rows, result, fetched,
                   filesAtStart, dirAtStart, writes>>

\* Variant: the head is read again for the file name and the metadata.
SaveRereadHead ==
    /\ pc = "loop"
    /\ it = Len(blocks)
    /\ LET df == rows
           out_path == OutPath(head)
       IN /\ dirExists' = TRUE
          /\ files' = WriteFile(files, out_path, df)
          /\ result' = Metadata(n_blocks, head, df, out_path)
          /\ trace' = trace \o <<RpcHead(TRUE, head), FsMakedirs, FsWrite(head)>>
          /\ writes' = Append(writes, [path |-> out_path, start |-> start_block,
                                       content |-> files'[out_path]])
    /\ pc' = "done"
    /\ UNCHANGED <<environ, head, chain, runs, error, locals, fetched, filesAtStart,
                   dirAtStart>>

\* The range is exhausted: build the frame, create the directory, write the
\* file and return the metadata.
Save ==
    /\ pc = "loop"
    /\ it = Len(blocks)
    /\ LET df == rows
           out_path == OutPath(latest_block)
       IN /\ dirExists' = TRUE
          /\ files' = WriteFile(files, out_path, df)
          /\ result' = Metadata(n_blocks, latest_block, df, out_path)
          /\ trace' = trace \o <<FsMakedirs, FsWrite(latest_block)>>
          /\ writes' = Append(writes, [path |-> out_path, start |-> start_block,
                                       content |-> files'[out_path]])
    /\ pc' = "done"
    /\ UNCHANGED <<environ, head, chain, runs, error, locals, fetched, filesAtStart,
                   dirAtStart>>

Next ==
    \/ AdvanceHead
    \/ \E url \in EnvUrlSettings, recent \in EnvBlocksSettings : Invoke(url, recent)
    \/ ReadBlocksFails
    \/ QueryHead
    \/ QueryHeadFails
    \/ FetchBlock
    \/ FetchBlockFails
    \/ Save

Spec == Init /\ [][Next]_vars

\* ------------------------------------------------------- derived observations
\* The block numbers of the get_block requests of this invocation, in order.
GetBlockCalls == SelectSeq(trace, LAMBDA e : e.op = "eth_getBlockByNumber")
HeadCalls == SelectSeq(trace, LAMBDA e : e.op = "eth_blockNumber")
FsCalls == SelectSeq(trace, LAMBDA e : IsFs(e))

\* The block count the environment configures.
ConfiguredBlocks == ParseInt(Getenv("ETH_TX_RECENT_BLOCKS", DefaultBlocks))

\* What the head query answered.
HeadAnswer == trace[1].ret

RECURSIVE SumTxs(_)
SumTxs(bs) == IF bs = <<>> THEN 0 ELSE Len(Head(bs).transactions) + SumTxs(Tail(bs))

\* The transactions of the returned blocks, in the order they were returned.
RECURSIVE FlatTxs(_)
FlatTxs(bs) == IF bs = <<>> THEN <<>> ELSE Head(bs).transactions \o FlatTxs(Tail(bs))

Completed == pc = "done"

\* ------------------------------------------------------------------------ C1
\* C1: for N >= 1 and head answer L, a completed run has fetched exactly the
\* blocks max(0, L-N+1) .. L, in all min(N, L+1) blocks.
C1_FetchedRange ==
    (Completed /\ ConfiguredBlocks >= 1) =>
        LET L == HeadAnswer
            N == ConfiguredBlocks
            calls == GetBlockCalls
        IN /\ Len(calls) = Min(N, L + 1)
           /\ \A i \in 1..Len(calls) :
                 calls[i].ok /\ calls[i].arg = Max(0, L - N + 1) + (i - 1)
           /\ calls[Len(calls)].arg = L
           /\ \A i \in 1..Len(fetched) : fetched[i].number = calls[i].arg
           /\ Len(fetched) = Len(calls)

\* A window that starts above block 0: N = 2 at head 2 fetched blocks 1, 2.
C1_Witness ==
    /\ Completed /\ ConfiguredBlocks = 2 /\ HeadAnswer = 2
    /\ Len(fetched) = 2 /\ fetched[1].number = 1 /\ fetched[2].number = 2

\* ------------------------------------------------------------------------ C2
\* C2: a failing RPC call ends the run at that call: it is the last call of
\* the run, it is issued once, no file-system call follows, and the file
\* system is as the run found it; a file is written only after every block of
\* [start_block, latest_block] was fetched successfully.
C2_AbortOnRpcFailure ==
    /\ \A i \in 1..Len(trace) :
          (IsRpc(trace[i]) /\ ~trace[i].ok) =>
             /\ i = Len(trace)
             /\ pc = "failed" /\ error = "ProviderError"
             /\ files = filesAtStart /\ dirExists = dirAtStart
             /\ \A j \in 1..Len(trace) :
                   (trace[j].op = trace[i].op /\ trace[j].arg = trace[i].arg) => j = i
    /\ \A k \in 1..Len(trace) :
          IsFs(trace[k]) =>
             /\ \A j \in 1..k : trace[j].ok
             /\ \A b \in start_block..latest_block :
                   \E j \in 1..(k - 1) :
                      /\ trace[j].op = "eth_getBlockByNumber"
                      /\ trace[j].arg = b /\ trace[j].ok
    /\ (files # filesAtStart \/ dirExists # dirAtStart) => FsCalls # <<>>

\* Block start_block was fetched and gave rows, the next get_block failed.
C2_Witness ==
    /\ pc = "failed" /\ error = "ProviderError"
    /\ Len(fetched) >= 1 /\ rows # <<>>
    /\ trace[Len(trace)].op = "eth_getBlockByNumber"
    /\ DOMAIN filesAtStart # {}

\* ------------------------------------------------------------------------ C3
\* C3: with ETHEREUM_RPC_URL missing the run aborts before any RPC call and
\* creates neither a file nor the directory.
C3_MissingEndpoint ==
    (runs > 0 /\ ~EnvHas("ETHEREUM_RPC_URL")) =>
        /\ pc = "failed"
        /\ trace = <<>>
        /\ files = filesAtStart
        /\ dirExists = dirAtStart

C3_Witness ==
    runs > 0 /\ ~EnvHas("ETHEREUM_RPC_URL") /\ error = "KeyError" /\ ~dirExists

\* ------------------------------------------------------------------------ C4
\* C4: in a completed run the file holds, and num_transactions reports, as
\* many records as the provider returned transactions over the blocks of
\* [start_block, latest_block]: one record per returned transaction, in
\* order, none dropped or duplicated.
C4_RecordCount ==
    Completed =>
        LET out == files[OutPath(latest_block)]
            txs == FlatTxs(fetched)
        IN /\ [i \in 1..Len(fetched) |-> fetched[i].number]
                = [i \in 1..Max(0, latest_block - start_block + 1) |-> start_block + i - 1]
           /\ Len(out) = SumTxs(fetched)
           /\ result.num_transactions = SumTxs(fetched)
           /\ \A i \in 1..Len(out) : out[i].hash = Hex(txs[i].hash)
           /\ \A b \in 1..Len(fetched) :
                 Cardinality({i \in 1..Len(out) : out[i].block_number = fetched[b].number})
                    = Len(fetched[b].transactions)

\* A block without transactions between blocks with transactions.
C4_Witness ==
    /\ Completed /\ Len(fetched) = 3
    /\ Len(fetched[1].transactions) = 2
    /\ Len(fetched[2].transactions) = 0
    /\ Len(fetched[3].transactions) = 1
    /\ result.num_transactions = 3

\* ------------------------------------------------------------------------ C5
\* C5: the records of every output file are ordered by block number, and by
\* transaction index within a block, strictly.
C5_Ordering ==
    \A p \in DOMAIN files :
        \A i, j \in 1..Len(files[p]) :
            i < j =>
               \/ files[p][i].block_number < files[p][j].block_number
               \/ /\ files[p][i].block_number = files[p][j].block_number
                  /\ files[p][i].transaction_index < files[p][j].transaction_index

C5_Witness ==
    /\ Completed
    /\ LET out == files[OutPath(latest_block)]
       IN /\ Len(out) >= 4
          /\ out[1].block_number = out[2].block_number
          /\ out[2].block_number < out[3].block_number
          /\ out[3].block_number = out[4].block_number

\* ------------------------------------------------------------------------ C6
\* C6: a record's max_fee_per_gas (max_priority_fee_per_gas) is None exactly
\* when its transaction has no maxFeePerGas (maxPriorityFeePerGas), and is
\* the transaction's value otherwise.
C6_FeeFields ==
    LET txs == FlatTxs(fetched)
    IN /\ Len(rows) = Len(txs)
       /\ \A i \in 1..Len(rows) :
             /\ (rows[i].max_fee_per_gas = None) <=> ("maxFeePerGas" \notin DOMAIN txs[i])
             /\ (rows[i].max_priority_fee_per_gas = None)
                   <=> ("maxPriorityFeePerGas" \notin DOMAIN txs[i])
             /\ "maxFeePerGas" \in DOMAIN txs[i]
                   => rows[i].max_fee_per_gas = txs[i].maxFeePerGas
             /\ "maxPriorityFeePerGas" \in DOMAIN txs[i]
                   => rows[i].max_priority_fee_per_gas = txs[i].maxPriorityFeePerGas
       /\ Completed => files[OutPath(latest_block)] = rows

C6_Witness ==
    /\ Completed
    /\ \E i, j \in 1..Len(rows) :
          /\ rows[i].max_fee_per_gas = None /\ rows[i].max_priority_fee_per_gas = None
          /\ rows[j].max_fee_per_gas = 7 /\ rows[j].max_priority_fee_per_gas = 2

\* ------------------------------------------------------------------------ C7
\* The part of C7 that does not depend on the earlier run: a completed run
\* wrote the path keyed by the head it read, and touched no other file.
OnlyKeyedPathWritten ==
    Completed =>
        /\ result.file = OutPath(HeadAnswer)
        /\ OutPath(HeadAnswer) \in DOMAIN files
        /\ writes[Len(writes)].path = OutPath(HeadAnswer)
        /\ files[OutPath(HeadAnswer)] = writes[Len(writes)].content
        /\ \A p \in DOMAIN files :
              p # OutPath(HeadAnswer) => p \in DOMAIN filesAtStart /\ files[p] = filesAtStart[p]

\* The head a path is keyed by.
PathHead(path) == path[2]

C8_ScannedIsFetched ==
    (Completed /\ ConfiguredBlocks >= 1) => result.blocks_scanned = Len(GetBlockCalls)

\* C8 amended: blocks_scanned is the configured block count N; for N >= 1
\* it is the number of blocks fetched exactly when L + 1 >= N.
C8_ScannedIsConfigured ==
    Completed =>
        /\ result.blocks_scanned = ConfiguredBlocks
        /\ ConfiguredBlocks >= 1 =>
              ((result.blocks_scanned = Len(GetBlockCalls))
                  <=> (HeadAnswer + 1 >= ConfiguredBlocks))

\* The window clamped at block 0: one block fetched, two reported.
C8_Witness ==
    /\ Completed /\ ConfiguredBlocks = 2 /\ HeadAnswer = 0
    /\ Len(GetBlockCalls) = 1 /\ result.blocks_scanned = 2

\* ------------------------------------------------------------------------ C9
\* C9: the head is read once, first of all calls; every get_block asks for a
\* block not above that answer, in strictly ascending order; a completed run
\* has fetched each block of [start_block, L] once, and its file name and
\* reported latest_block are that same L, wherever the head has moved.
C9_HeadReadOnce ==
    trace # <<>> =>
        /\ trace[1].op = "eth_blockNumber"
        /\ Len(HeadCalls) = 1
        /\ LET calls == GetBlockCalls
           IN /\ \A i \in 1..Len(calls) : calls[i].arg <= HeadAnswer
              /\ \A i, j \in 1..Len(calls) : i < j => calls[i].arg < calls[j].arg
              /\ Completed =>
                    /\ HeadAnswer <= head
                    /\ \A b \in start_block..HeadAnswer :
                          Cardinality({i \in 1..Len(calls) : calls[i].arg = b}) = 1
                    /\ \A i \in 1..Len(calls) : calls[i].arg \in start_block..HeadAnswer
                    /\ result.latest_block = HeadAnswer
                    /\ result.file = OutPath(HeadAnswer)
                    /\ trace[Len(trace)] = FsWrite(HeadAnswer)
                    /\ writes[Len(writes)].path = OutPath(HeadAnswer)
                    /\ OutPath(HeadAnswer) \in DOMAIN files

\* The head moved on between the first get_block and the last one.
C9_Witness ==
    /\ Completed
    /\ Len(GetBlockCalls) >= 2
    /\ GetBlockCalls[1].at = HeadAnswer
    /\ GetBlockCalls[Len(GetBlockCalls)].at > HeadAnswer
    /\ DOMAIN files = {OutPath(HeadAnswer)}

\* ----------------------------------------------------------------------- C10
\* C10: with a block count N <= 0, once the head is read the run cannot fail:
\* start_block is above latest_block, no get_block is issued, and the run
\* writes an empty file at the path keyed by L, reporting num_transactions = 0
\* and blocks_scanned = N.
C10_NonPositiveCount ==
    (trace # <<>> /\ trace[1].ok /\ ConfiguredBlocks <= 0) =>
        /\ pc \in {"loop", "done"}
        /\ start_block > latest_block
        /\ GetBlockCalls = <<>>
        /\ pc = "loop" => (it = Len(blocks) /\ ENABLED Save)
        /\ Completed =>
              /\ files[OutPath(HeadAnswer)] = <<>>
              /\ result.num_transactions = 0
              /\ result.blocks_scanned = ConfiguredBlocks
              /\ result.file = OutPath(HeadAnswer)

C10_Witness ==
    /\ Completed /\ ConfiguredBlocks = -1 /\ HeadAnswer = 2
    /\ files[OutPath(2)] = <<>> /\ result.blocks_scanned = -1

====
